---- MODULE Spec2Model ----
(***************************************************************************)
(* Model of oidc-agent's file store: plain file primitives (file_io.c),    *)
(* the config-directory layer (oidc_file_io.c) and the prompt/encrypt/     *)
(* write and decrypt-with-prompt entry points (promptCryptFileUtils.c).    *)
(* C strings are sequences of one-character strings; NULL is the model     *)
(* value "NULL".                                                           *)
(***************************************************************************)
EXTENDS Integers, Sequences, FiniteSets, TLC

VARIABLES
  alive,      \* TRUE while the process runs (FALSE after exit() or a crash)
  op,         \* the last call made: a record with the function name and arguments
  ret,        \* what that call gave back to its caller (a record)
  filename,   \* classifier input
  parentKind, \* state of $HOME/.config
  locKind,    \* state of each candidate location, indexed as possibleLocations
  contents,   \* directory entries of each candidate location, in readdir order
  pfile,      \* the file at an arbitrary path used by readFile / writeFile
  probe,      \* state of the path handed to dirExists
  store,      \* ciphertext files: what each write target holds
  events,     \* what the last encrypted-file call did, in order
  pws         \* the passwords obtained during the last call: "live" or "erased"

vars == <<alive, op, ret, filename, parentKind, locKind, contents, pfile, probe,
          store, events, pws>>

NULL == "NULL"

\* ------------------------------------------------------------------ bounds
MaxPieces == 4
MaxEntries == 2
MaxLen == 2
MaxTries == 2

\* ----------------------------------------------------------------- strings
Str_clientconfig == <<".", "c", "l", "i", "e", "n", "t", "c", "o", "n", "f", "i", "g">>
Str_config == <<".", "c", "o", "n", "f", "i", "g">>
Digits == {"0", "1", "2", "3", "4", "5", "6", "7", "8", "9"}

strlen(s) == Len(s)

isdigit(c) == c \in Digits

\* strEnds(str, suffix): str ends with suffix
strEnds(str, suffix) ==
  /\ Len(suffix) <= Len(str)
  /\ SubSeq(str, Len(str) - Len(suffix) + 1, Len(str)) = suffix

OccursAt(hay, needle, i) ==
  /\ i >= 1
  /\ i + Len(needle) - 1 <= Len(hay)
  /\ SubSeq(hay, i, i + Len(needle) - 1) = needle

\* strstr(hay, needle): 1-based position of the FIRST occurrence, 0 for NULL
strstr(hay, needle) ==
  LET hits == {i \in 1..Len(hay) : OccursAt(hay, needle, i)}
  IN IF hits = {} THEN 0 ELSE CHOOSE i \in hits : \A j \in hits : i <= j

\* the while (*pos != '\0') loop of isClientConfigFile, from position pos
RECURSIVE ScanDigits(_, _)
ScanDigits(s, pos) ==
  IF pos > Len(s) THEN 1
  ELSE IF ~isdigit(s[pos]) THEN 0
  ELSE ScanDigits(s, pos + 1)

isClientConfigFile(name) ==
  IF strEnds(name, Str_clientconfig) THEN 1
  ELSE LET pos == strstr(name, Str_clientconfig)
       IN IF pos # 0 THEN ScanDigits(name, pos + strlen(Str_clientconfig)) ELSE 0

isAccountConfigFile(name) ==
  IF isClientConfigFile(name) # 0 THEN 0
  ELSE IF strEnds(name, Str_config) THEN 0
  ELSE 1

\* ------------------------------------------------- classifier specification
Pieces == {<<"a">>, <<"X">>, <<"0">>, <<"3">>, Str_clientconfig, Str_config}

RECURSIVE Flatten(_)
Flatten(ps) == IF ps = <<>> THEN <<>> ELSE Head(ps) \o Flatten(Tail(ps))

Filenames == {Flatten(ps) : ps \in UNION {[1..n -> Pieces] : n \in 1..MaxPieces}}

NoRet == [out |-> "none"]
NoOp == [fn |-> "none"]

\* ------------------------------------------------------------ plain file I/O
EXIT == "exit"

PathKinds == {"absent", "dir", "noaccess", "file"}

\* a char* result: NULL or a string
NullStr == [null |-> TRUE, s |-> <<>>]
StrPtr(s) == [null |-> FALSE, s |-> s]

\* dirExists on a path in state kind: opendir succeeds on a readable directory,
\* fails with ENOENT on a missing one, and with another errno (EACCES on an
\* unreadable directory, ENOTDIR on a non-directory) otherwise, where the
\* function calls exit(EXIT_FAILURE) and never reaches its return -1
dirExists(kind) ==
  IF kind = "dir" THEN [exits |-> FALSE, val |-> 1]
  ELSE IF kind = "absent" THEN [exits |-> FALSE, val |-> 0]
  ELSE [exits |-> TRUE, val |-> -1]

FileData == UNION {[1..n -> {"a", "b"}] : n \in 0..MaxLen}
AbsentFile == [kind |-> "absent", mode |-> "none", data |-> <<>>]
PFiles == {AbsentFile} \cup [kind : {"file"}, mode : {"rw", "none"}, data : FileData]

\* fopen(path, "rb") gives a stream only for an existing, readable file
CanOpenRead(f) == f.kind = "file" /\ f.mode = "rw"

\* fread(buffer, lSize, 1, fp): the number of whole items of lSize bytes read
fread(lSize, io) == IF lSize = 0 THEN 0 ELSE IF io = "ok" THEN 1 ELSE 0

\* readFile(path) on file f; mem: whether calloc succeeds, io: whether the read completes
readFile(f, mem, io) ==
  IF ~CanOpenRead(f) THEN [out |-> "returned", buf |-> NullStr]
  ELSE LET lSize == Len(f.data)
       IN IF mem # "ok" THEN [out |-> EXIT, buf |-> NullStr]
          ELSE IF 1 # fread(lSize, io) THEN [out |-> EXIT, buf |-> NullStr]
          ELSE [out |-> "returned", buf |-> StrPtr(f.data)]

\* writeFile(path, text) on file f; creat: whether fopen(path, "w") can create or
\* truncate the file
writeFile(f, text, creat) ==
  IF creat # "ok" \/ (f.kind = "file" /\ f.mode # "rw")
  THEN [out |-> EXIT, file |-> f]
  ELSE [out |-> "returned", file |-> [kind |-> "file", mode |-> "rw", data |-> text]]

\* ------------------------------------------------------ config directory
HOME == <<"/", "h">>
possibleLocations == <<<<"~", "/", ".", "c", "o", "n", "f", "i", "g", "/", "o", "i", "d", "c", "-", "a", "g", "e", "n", "t", "/">>,
                       <<"~", "/", ".", "o", "i", "d", "c", "-", "a", "g", "e", "n", "t", "/">>>>
ISSUER_CONFIG_FILENAME == <<"i", "s", "s", "u", "e", "r", ".", "c", "o", "n", "f", "i", "g">>
Str_dot == <<".">>
Str_dotdot == <<".", ".">>

OIDC_SUCCESS == "OIDC_SUCCESS"
OIDC_EERROR == "OIDC_EERROR"

\* oidc_strcat(a, b): the concatenation of two strings
oidc_strcat(a, b) == a \o b

\* home-expanded candidate i: oidc_strcat(home, possibleLocations[i] + 1)
LocPath(i) == oidc_strcat(HOME, Tail(possibleLocations[i]))

\* the for loop of getOidcDir from candidate i on; kinds[i] is the state of
\* candidate i on disk
RECURSIVE getOidcDirFrom(_, _)
getOidcDirFrom(kinds, i) ==
  IF i > Len(possibleLocations) THEN [out |-> "returned", dir |-> NullStr]
  ELSE LET r == dirExists(kinds[i])
       IN IF r.exits THEN [out |-> EXIT, dir |-> NullStr]
          ELSE IF r.val > 0 THEN [out |-> "returned", dir |-> StrPtr(LocPath(i))]
          ELSE getOidcDirFrom(kinds, i + 1)

getOidcDir(kinds) == getOidcDirFrom(kinds, 1)

\* createDir(path): mkdir of a directory in state kind; mk: whether the
\* filesystem lets the directory be made
createDir(kind, mk) ==
  IF kind = "absent" /\ mk = "ok" THEN OIDC_SUCCESS ELSE OIDC_EERROR

MarkerEntry == [name |-> ISSUER_CONFIG_FILENAME, type |-> "DT_REG", size |-> 0]

HasName(ents, n) == \E k \in 1..Len(ents) : ents[k].name = n

\* open(path, O_WRONLY | O_CREAT | O_TRUNC, 0644) in a directory of state kind
\* holding ents; opn: whether the filesystem lets the file be opened
CanOpenMarker(kind, ents, opn) ==
  /\ opn = "ok"
  /\ kind \in {"dir", "noaccess"}
  /\ \A k \in 1..Len(ents) :
       ents[k].name = ISSUER_CONFIG_FILENAME => ents[k].type = "DT_REG"

OpenTrunc(ents) ==
  IF HasName(ents, ISSUER_CONFIG_FILENAME)
  THEN [k \in 1..Len(ents) |->
          IF ents[k].name = ISSUER_CONFIG_FILENAME THEN MarkerEntry ELSE ents[k]]
  ELSE Append(ents, MarkerEntry)

\* createOidcDir(): parentK is the state of $HOME/.config
createOidcDir(parentK, kinds, conts, mk, opn) ==
  LET r == dirExists(parentK)
      target == IF r.val > 0 THEN 1 ELSE 2
      code == createDir(kinds[target], mk)
      kinds1 == IF code = OIDC_SUCCESS THEN [kinds EXCEPT ![target] = "dir"] ELSE kinds
      opened == CanOpenMarker(kinds1[target], conts[target], opn)
      conts1 == IF opened THEN [conts EXCEPT ![target] = OpenTrunc(conts[target])]
                ELSE conts
  IN IF r.exits
     THEN [out |-> EXIT, code |-> OIDC_EERROR, target |-> 0, made |-> FALSE,
           opened |-> FALSE, kinds |-> kinds, conts |-> conts]
     ELSE [out |-> "returned", code |-> code, target |-> target,
           made |-> (code = OIDC_SUCCESS), opened |-> opened,
           kinds |-> kinds1, conts |-> conts1]

\* ------------------------------------------------------- directory listing
\* the candidate a directory path names, 0 when it names none of them
LocOf(path) ==
  IF \E i \in 1..Len(possibleLocations) : LocPath(i) = path
  THEN CHOOSE i \in 1..Len(possibleLocations) : LocPath(i) = path
  ELSE 0

alwaysOne(name) == 1

\* a call of the match function pointer
Match(match, name) ==
  IF match = "isAccountConfigFile" THEN isAccountConfigFile(name)
  ELSE IF match = "isClientConfigFile" THEN isClientConfigFile(name)
  ELSE alwaysOne(name)

DotEntries == <<[name |-> Str_dot, type |-> "DT_DIR", size |-> 0],
                [name |-> Str_dotdot, type |-> "DT_DIR", size |-> 0]>>

\* what successive readdir calls give for a directory holding ents
readdir(ents) == DotEntries \o ents

\* the while ((ent = readdir(dir)) != NULL) loop, list_rpush appending
RECURSIVE readdirLoop(_, _, _)
readdirLoop(ents, match, list) ==
  IF ents = <<>> THEN list
  ELSE LET ent == Head(ents)
           keep == /\ ent.name # Str_dot
                   /\ ent.name # Str_dotdot
                   /\ ent.type = "DT_REG"
                   /\ Match(match, ent.name) # 0
       IN readdirLoop(Tail(ents), match, IF keep THEN Append(list, ent.name) ELSE list)

NoList(out, used) ==
  [out |-> out, null |-> TRUE, list |-> <<>>, errset |-> (out = "returned"),
   usedMissing |-> used]

\* getFileListForDirIf(dirname, match, arg); nullOpen resolves opendir(NULL),
\* which the C library leaves undefined: it fails or the process crashes
getFileListForDirIf(kinds, conts, dirname, match, nullOpen) ==
  IF dirname.null
  THEN (IF nullOpen = "fails" THEN NoList("returned", FALSE) ELSE NoList("crash", FALSE))
  ELSE LET i == LocOf(dirname.s)
       IN IF i # 0 /\ kinds[i] = "dir"
          THEN [out |-> "returned", null |-> FALSE,
                list |-> readdirLoop(readdir(conts[i]), match, <<>>),
                errset |-> FALSE, usedMissing |-> FALSE]
          ELSE NoList("returned", FALSE)

getFileListForDir(kinds, conts, dirname, nullOpen) ==
  getFileListForDirIf(kinds, conts, dirname, "alwaysOne", nullOpen)

getAccountConfigFileList(kinds, conts, nullOpen) ==
  LET d == getOidcDir(kinds)
  IN IF d.out = EXIT THEN NoList(EXIT, FALSE)
     ELSE getFileListForDirIf(kinds, conts, d.dir, "isAccountConfigFile", nullOpen)

\* getClientConfigFileList handing back the bare names, as the account listing does
getClientConfigFileList_Bare(kinds, conts, nullOpen, nullIter) ==
  LET d == getOidcDir(kinds)
      l == getFileListForDirIf(kinds, conts, d.dir, "isClientConfigFile", nullOpen)
  IN IF d.out = EXIT THEN NoList(EXIT, FALSE)
     ELSE IF l.out # "returned" THEN l
     ELSE IF l.null THEN NoList(nullIter, TRUE)
     ELSE l

\* getClientConfigFileList(); nullIter resolves list_iterator_new(NULL, ...),
\* which reads through the null list: the process crashes or goes on with
\* whatever it read
getClientConfigFileList(kinds, conts, nullOpen, nullIter) ==
  LET d == getOidcDir(kinds)
      l == getFileListForDirIf(kinds, conts, d.dir, "isClientConfigFile", nullOpen)
  IN IF d.out = EXIT THEN NoList(EXIT, FALSE)
     ELSE IF l.out # "returned" THEN l
     ELSE IF l.null THEN NoList(nullIter, TRUE)
     ELSE [l EXCEPT !.list = [k \in 1..Len(l.list) |-> oidc_strcat(d.dir.s, l.list[k])]]

\* ------------------------------------------------- encrypted file access
OIDC_EARGNULLFUNC == "OIDC_EARGNULLFUNC"
OIDC_EUSRPWCNCL == "OIDC_EUSRPWCNCL"
OIDC_EFILE == "OIDC_EFILE"

Texts == {"t1"}
Passwords == {"pw1", "pw2"}
FILEPATH == "/p/f"
OIDCNAME == "f"

NoFile == [present |-> FALSE, text |-> "-", pw |-> "-"]
Cipher(text, pw) == [present |-> TRUE, text |-> text, pw |-> pw]
StoreKeys == {"path", "oidc"} \X {FILEPATH, OIDCNAME}

Event(e, fn, arg, pw) == [e |-> e, fn |-> fn, arg |-> arg, pw |-> pw]

\* a password buffer handed to this call chain
Obtain(ps, pw) == Append(ps, [val |-> pw, state |-> "live"])

\* secFree(p): the buffer is zeroed and released; secFree(NULL) does nothing
secFree(ps, idx) == IF idx = 0 THEN ps ELSE [ps EXCEPT ![idx].state = "erased"]

\* getEncryptionPasswordFor(hint, suggestedPassword, pw_cmd): pwd is what the
\* prompt (or the password command) gives: a password, or NULL with oidc_errno set
getEncryptionPasswordFor(hint, suggestedPassword, pw_cmd, pwd) ==
  [pw |-> pwd, errno |-> IF pwd = NULL THEN OIDC_EUSRPWCNCL ELSE OIDC_SUCCESS]

\* encryptAndWriteToFile / encryptAndWriteToOidcFile(text, password, target):
\* fnc names the writer; wr: whether encrypting and writing succeed
encryptAndWriteFnc(fnc, text, password, target, wr, st) ==
  LET key == <<IF fnc = "encryptAndWriteToOidcFile" THEN "oidc" ELSE "path", target>>
  IN IF wr = "ok"
     THEN [code |-> OIDC_SUCCESS, store |-> [st EXCEPT ![key] = Cipher(text, password)]]
     ELSE [code |-> OIDC_EFILE, store |-> st]

WriteResult(code, evs, ps, st) ==
  [out |-> "returned", code |-> code, result |-> NULL, password |-> 0,
   events |-> evs, pws |-> ps, store |-> st]

\* _promptAndCryptAndWriteToAnyFile without its encryptionPassword == NULL return
AnyFile_NoPasswordCheck(text, filepath, oidc_filename, hint, suggestedPassword, pw_cmd, env, st) ==
  IF text = NULL \/ hint = NULL \/ (filepath = NULL /\ oidc_filename = NULL)
  THEN WriteResult(OIDC_EARGNULLFUNC, <<>>, <<>>, st)
  ELSE LET fnc == IF oidc_filename # NULL THEN "encryptAndWriteToOidcFile"
                  ELSE "encryptAndWriteToFile"
           encryptionPassword ==
             getEncryptionPasswordFor(hint, suggestedPassword, pw_cmd, env.pwd)
           prompted == <<Event("getEncryptionPasswordFor", "-", hint, 0)>>
       IN IF FALSE
          THEN WriteResult(encryptionPassword.errno, prompted, <<>>, st)
          ELSE LET ps == Obtain(<<>>, encryptionPassword.pw)
                   target == IF oidc_filename # NULL THEN oidc_filename ELSE filepath
                   w == encryptAndWriteFnc(fnc, text, encryptionPassword.pw, target,
                                           env.wr, st)
               IN WriteResult(w.code,
                              prompted \o <<Event("write", fnc, target, 1),
                                            Event("secFree", "-", "-", 1)>>,
                              secFree(ps, 1), w.store)

\* _promptAndCryptAndWriteToAnyFile without hint == NULL in its argument check
AnyFile_NoHintCheck(text, filepath, oidc_filename, hint, suggestedPassword, pw_cmd, env, st) ==
  IF text = NULL \/ (filepath = NULL /\ oidc_filename = NULL)
  THEN WriteResult(OIDC_EARGNULLFUNC, <<>>, <<>>, st)
  ELSE LET fnc == IF oidc_filename # NULL THEN "encryptAndWriteToOidcFile"
                  ELSE "encryptAndWriteToFile"
           encryptionPassword ==
             getEncryptionPasswordFor(hint, suggestedPassword, pw_cmd, env.pwd)
           prompted == <<Event("getEncryptionPasswordFor", "-", hint, 0)>>
       IN IF encryptionPassword.pw = NULL
          THEN WriteResult(encryptionPassword.errno, prompted, <<>>, st)
          ELSE LET ps == Obtain(<<>>, encryptionPassword.pw)
                   target == IF oidc_filename # NULL THEN oidc_filename ELSE filepath
                   w == encryptAndWriteFnc(fnc, text, encryptionPassword.pw, target,
                                           env.wr, st)
               IN WriteResult(w.code,
                              prompted \o <<Event("write", fnc, target, 1),
                                            Event("secFree", "-", "-", 1)>>,
                              secFree(ps, 1), w.store)

\* _promptAndCryptAndWriteToAnyFile passing filepath ?: oidc_filename to the writer
AnyFile_PathFirst(text, filepath, oidc_filename, hint, suggestedPassword, pw_cmd, env, st) ==
  IF text = NULL \/ hint = NULL \/ (filepath = NULL /\ oidc_filename = NULL)
  THEN WriteResult(OIDC_EARGNULLFUNC, <<>>, <<>>, st)
  ELSE LET fnc == IF oidc_filename # NULL THEN "encryptAndWriteToOidcFile"
                  ELSE "encryptAndWriteToFile"
           encryptionPassword ==
             getEncryptionPasswordFor(hint, suggestedPassword, pw_cmd, env.pwd)
           prompted == <<Event("getEncryptionPasswordFor", "-", hint, 0)>>
       IN IF encryptionPassword.pw = NULL
          THEN WriteResult(encryptionPassword.errno, prompted, <<>>, st)
          ELSE LET ps == Obtain(<<>>, encryptionPassword.pw)
                   target == IF filepath # NULL THEN filepath ELSE oidc_filename
                   w == encryptAndWriteFnc(fnc, text, encryptionPassword.pw, target,
                                           env.wr, st)
               IN WriteResult(w.code,
                              prompted \o <<Event("write", fnc, target, 1),
                                            Event("secFree", "-", "-", 1)>>,
                              secFree(ps, 1), w.store)

_promptAndCryptAndWriteToAnyFile(text, filepath, oidc_filename, hint, suggestedPassword, pw_cmd, env, st) ==
  IF text = NULL \/ hint = NULL \/ (filepath = NULL /\ oidc_filename = NULL)
  THEN WriteResult(OIDC_EARGNULLFUNC, <<>>, <<>>, st)
  ELSE LET fnc == IF oidc_filename # NULL THEN "encryptAndWriteToOidcFile"
                  ELSE "encryptAndWriteToFile"
           encryptionPassword ==
             getEncryptionPasswordFor(hint, suggestedPassword, pw_cmd, env.pwd)
           prompted == <<Event("getEncryptionPasswordFor", "-", hint, 0)>>
       IN IF encryptionPassword.pw = NULL
          THEN WriteResult(encryptionPassword.errno, prompted, <<>>, st)
          ELSE LET ps == Obtain(<<>>, encryptionPassword.pw)
                   target == IF oidc_filename # NULL THEN oidc_filename ELSE filepath
                   w == encryptAndWriteFnc(fnc, text, encryptionPassword.pw, target,
                                           env.wr, st)
               IN WriteResult(w.code,
                              prompted \o <<Event("write", fnc, target, 1),
                                            Event("secFree", "-", "-", 1)>>,
                              secFree(ps, 1), w.store)

promptEncryptAndWriteToFile(text, filepath, hint, suggestedPassword, pw_cmd, env, st) ==
  IF text = NULL \/ filepath = NULL \/ hint = NULL
  THEN WriteResult(OIDC_EARGNULLFUNC, <<>>, <<>>, st)
  ELSE _promptAndCryptAndWriteToAnyFile(text, filepath, NULL, hint,
                                        suggestedPassword, pw_cmd, env, st)

promptEncryptAndWriteToOidcFile(text, fname, hint, suggestedPassword, pw_cmd, env, st) ==
  IF text = NULL \/ fname = NULL \/ hint = NULL
  THEN WriteResult(OIDC_EARGNULLFUNC, <<>>, <<>>, st)
  ELSE _promptAndCryptAndWriteToAnyFile(text, NULL, fname, hint,
                                        suggestedPassword, pw_cmd, env, st)

\* struct resultWithEncryptionPassword; password is the index of the buffer
\* handed back, 0 for NULL
ReadResult(result, password, evs, ps, st) ==
  [out |-> "returned", code |-> "-", result |-> result, password |-> password,
   events |-> evs, pws |-> ps, store |-> st]

RESULT_WITH_PASSWORD_NULL(evs, ps, st) == ReadResult(NULL, 0, evs, ps, st)

\* the prompt / decrypt loop: attempt k of the passwords the prompt (or the
\* password command) gives; a wrong password is erased and, for an interactive
\* source, asked again
RECURSIVE DecryptLoop(_, _, _, _, _, _, _)
DecryptLoop(file, decryptFnc, pw_cmd, attempts, k, evs, ps) ==
  IF k > Len(attempts) \/ attempts[k] = NULL
  THEN [result |-> NULL, password |-> 0, events |-> evs, pws |-> ps]
  ELSE LET ps1 == Obtain(ps, attempts[k])
           idx == Len(ps1)
           evs1 == evs \o <<Event("decrypt", decryptFnc, "-", idx)>>
       IN IF attempts[k] = file.pw
          THEN [result |-> file.text, password |-> idx, events |-> evs1, pws |-> ps1]
          ELSE LET ps2 == secFree(ps1, idx)
                   evs2 == evs1 \o <<Event("secFree", "-", "-", idx)>>
               IN IF pw_cmd # NULL
                  THEN [result |-> NULL, password |-> 0, events |-> evs2, pws |-> ps2]
                  ELSE DecryptLoop(file, decryptFnc, pw_cmd, attempts, k + 1, evs2, ps2)

_getDecryptedTextAndPasswordWithPromptFor(decrypt_argument, prompt_argument, decryptFnc, isAccountConfig, pw_cmd, env, st) ==
  LET key == <<IF decryptFnc = "decryptOidcFile" THEN "oidc" ELSE "path", decrypt_argument>>
      rd == <<Event("read", decryptFnc, decrypt_argument, 0)>>
  IN IF ~st[key].present THEN RESULT_WITH_PASSWORD_NULL(rd, <<>>, st)
     ELSE LET r == DecryptLoop(st[key], decryptFnc, pw_cmd, env.attempts, 1, rd, <<>>)
          IN ReadResult(r.result, r.password, r.events, r.pws, st)

getDecryptedFileAndPasswordFor(filepath, pw_cmd, env, st) ==
  IF filepath = NULL THEN RESULT_WITH_PASSWORD_NULL(<<>>, <<>>, st)
  ELSE _getDecryptedTextAndPasswordWithPromptFor(filepath, filepath, "decryptFile", 0,
                                                 pw_cmd, env, st)

getDecryptedOidcFileAndPasswordFor(fname, pw_cmd, env, st) ==
  IF fname = NULL THEN RESULT_WITH_PASSWORD_NULL(<<>>, <<>>, st)
  ELSE _getDecryptedTextAndPasswordWithPromptFor(fname, fname, "decryptOidcFile", 1,
                                                 pw_cmd, env, st)

\* return res.result without secFree(res.password)
DropPassword_NoSecFree(res) == [res EXCEPT !.password = 0]

\* secFree(res.password); return res.result
DropPassword(res) ==
  [res EXCEPT !.pws = secFree(res.pws, res.password),
              !.events = IF res.password = 0 THEN res.events
                         ELSE res.events \o <<Event("secFree", "-", "-", res.password)>>,
              !.password = 0]

getDecryptedFileFor(filepath, pw_cmd, env, st) ==
  IF filepath = NULL THEN RESULT_WITH_PASSWORD_NULL(<<>>, <<>>, st)
  ELSE DropPassword(getDecryptedFileAndPasswordFor(filepath, pw_cmd, env, st))

getDecryptedOidcFileFor(fname, pw_cmd, env, st) ==
  IF fname = NULL THEN RESULT_WITH_PASSWORD_NULL(<<>>, <<>>, st)
  ELSE DropPassword(getDecryptedOidcFileAndPasswordFor(fname, pw_cmd, env, st))

\* ------------------------------------------------------------ specifications
ClassDefault == filename = <<>>
DirDefault ==
  /\ parentKind = "absent"
  /\ locKind = [i \in 1..2 |-> "absent"]
  /\ contents = [i \in 1..2 |-> <<>>]
PlainDefault == pfile = AbsentFile /\ probe = "absent"
CryptDefault == store = [k \in StoreKeys |-> NoFile] /\ events = <<>> /\ pws = <<>>
CallDefault == alive = TRUE /\ op = NoOp /\ ret = NoRet

ClassVars == <<filename>>
DirVars == <<parentKind, locKind, contents>>
PlainVars == <<pfile, probe>>
CryptVars == <<store, events, pws>>

InitPlain ==
  /\ CallDefault /\ ClassDefault /\ DirDefault /\ CryptDefault
  /\ pfile \in PFiles
  /\ probe \in PathKinds

ReadFile ==
  /\ alive
  /\ \E mem \in {"ok", "fail"}, io \in {"ok", "fail"} :
       LET r == readFile(pfile, mem, io)
       IN /\ op' = [fn |-> "readFile", mem |-> mem, io |-> io, before |-> pfile]
          /\ ret' = r
          /\ alive' = (r.out # EXIT)
  /\ UNCHANGED <<ClassVars, DirVars, PlainVars, CryptVars>>

WriteFile ==
  /\ alive
  /\ \E text \in FileData, creat \in {"ok", "fail"} :
       LET r == writeFile(pfile, text, creat)
       IN /\ op' = [fn |-> "writeFile", text |-> text, creat |-> creat, before |-> pfile]
          /\ ret' = [out |-> r.out]
          /\ pfile' = r.file
          /\ alive' = (r.out # EXIT)
  /\ UNCHANGED <<ClassVars, DirVars, probe, CryptVars>>

DirExists ==
  /\ alive
  /\ LET r == dirExists(probe)
     IN /\ op' = [fn |-> "dirExists", kind |-> probe]
        /\ ret' = [out |-> IF r.exits THEN EXIT ELSE "returned", val |-> r.val]
        /\ alive' = ~r.exits
  /\ UNCHANGED <<ClassVars, DirVars, PlainVars, CryptVars>>

NextPlain == ReadFile \/ WriteFile \/ DirExists

SpecPlain == InitPlain /\ [][NextPlain]_vars

\* C4: no plain-file operation terminates the process: every failure of
\* readFile, writeFile and dirExists (an unopenable file, a read that cannot
\* complete, including that of an existing zero-length file, a directory probe
\* failing for a reason other than non-existence) is returned to the caller as
\* an error outcome and the process keeps running.
C4_NoPlainOpTerminates ==
  op.fn \in {"readFile", "writeFile", "dirExists"} => (alive /\ ret.out = "returned")

\* --------------------------------------------- config directory specification
EntryPool ==
  {[name |-> <<"a">>, type |-> "DT_REG", size |-> 1],
   [name |-> <<"a">> \o Str_clientconfig \o <<"3">>, type |-> "DT_REG", size |-> 1],
   [name |-> ISSUER_CONFIG_FILENAME, type |-> "DT_REG", size |-> 1],
   [name |-> <<"c">> \o Str_config, type |-> "DT_REG", size |-> 1],
   [name |-> <<"d">>, type |-> "DT_DIR", size |-> 0],
   [name |-> <<"b">> \o Str_clientconfig, type |-> "DT_DIR", size |-> 0]}

DirContents ==
  {es \in UNION {[1..n -> EntryPool] : n \in 0..MaxEntries} :
     \A j, k \in 1..Len(es) : j # k => es[j].name # es[k].name}

InitDir ==
  /\ CallDefault /\ ClassDefault /\ PlainDefault /\ CryptDefault
  /\ parentKind \in {"absent", "dir", "noaccess"}
  /\ locKind \in [1..2 -> PathKinds]
  /\ parentKind = "absent" => locKind[1] = "absent"
  /\ contents \in [1..2 -> DirContents]
  /\ \A i \in 1..2 : locKind[i] # "dir" => contents[i] = <<>>
  /\ Len(contents[1]) + Len(contents[2]) <= MaxEntries

Snapshot == [parentKind |-> parentKind, locKind |-> locKind, contents |-> contents]

GetOidcDir ==
  /\ alive
  /\ LET r == getOidcDir(locKind)
     IN /\ op' = [fn |-> "getOidcDir", before |-> Snapshot]
        /\ ret' = r
        /\ alive' = (r.out = "returned")
  /\ UNCHANGED <<ClassVars, DirVars, PlainVars, CryptVars>>

CreateOidcDir ==
  /\ alive
  /\ \E mk \in {"ok", "fail"}, opn \in {"ok", "fail"} :
       LET r == createOidcDir(parentKind, locKind, contents, mk, opn)
       IN /\ op' = [fn |-> "createOidcDir", before |-> Snapshot]
          /\ ret' = [out |-> r.out, code |-> r.code, target |-> r.target,
                     made |-> r.made, opened |-> r.opened]
          /\ locKind' = r.kinds
          /\ contents' = r.conts
          /\ alive' = (r.out = "returned")
  /\ UNCHANGED <<ClassVars, parentKind, PlainVars, CryptVars>>

GetFileListForDir ==
  /\ alive
  /\ \E dirname \in {StrPtr(LocPath(i)) : i \in 1..2}, nullOpen \in {"fails", "crash"} :
       LET r == getFileListForDir(locKind, contents, dirname, nullOpen)
       IN /\ op' = [fn |-> "getFileListForDir", dirname |-> dirname, before |-> Snapshot]
          /\ ret' = r
          /\ alive' = (r.out = "returned")
  /\ UNCHANGED <<ClassVars, DirVars, PlainVars, CryptVars>>

GetAccountConfigFileList ==
  /\ alive
  /\ \E nullOpen \in {"fails", "crash"} :
       LET r == getAccountConfigFileList(locKind, contents, nullOpen)
       IN /\ op' = [fn |-> "getAccountConfigFileList", before |-> Snapshot]
          /\ ret' = r
          /\ alive' = (r.out = "returned")
  /\ UNCHANGED <<ClassVars, DirVars, PlainVars, CryptVars>>

GetClientConfigFileList ==
  /\ alive
  /\ \E nullOpen \in {"fails", "crash"}, nullIter \in {"crash", "undefined"} :
       LET r == getClientConfigFileList(locKind, contents, nullOpen, nullIter)
       IN /\ op' = [fn |-> "getClientConfigFileList", before |-> Snapshot]
          /\ ret' = r
          /\ alive' = (r.out = "returned")
  /\ UNCHANGED <<ClassVars, DirVars, PlainVars, CryptVars>>

NextDir ==
  \/ GetOidcDir
  \/ CreateOidcDir
  \/ GetFileListForDir
  \/ GetClientConfigFileList
  \/ GetAccountConfigFileList

SpecDir == InitDir /\ [][NextDir]_vars

ExistsAsDir(kind) == kind \in {"dir", "noaccess"}

FirstExisting(kinds) ==
  IF \E i \in 1..2 : ExistsAsDir(kinds[i])
  THEN StrPtr(LocPath(CHOOSE i \in 1..2 :
                        ExistsAsDir(kinds[i]) /\ \A j \in 1..2 : ExistsAsDir(kinds[j]) => i <= j))
  ELSE NullStr

\* C5: for every filesystem state getOidcDir returns the home-expanded first
\* candidate, in the order of possibleLocations, that exists as a directory,
\* NULL exactly when none exists, and changes nothing on disk.
C5_ResolveFirstExisting ==
  op.fn = "getOidcDir" =>
    /\ ret.out = "returned"
    /\ ret.dir = FirstExisting(locKind)
    /\ Snapshot = op.before

InSeq(x, seq) == \E k \in 1..Len(seq) : seq[k] = x

MarkerIn(ents) ==
  \E k \in 1..Len(ents) :
    ents[k].name = ISSUER_CONFIG_FILENAME /\ ents[k].type = "DT_REG" /\ ents[k].size = 0

\* C6: after createOidcDir returns success, a following getOidcDir returns the
\* directory it created, that directory holds the zero-length issuer config
\* marker, the marker is in neither config listing; and when the directory or
\* the marker could not be created, createOidcDir returns an error.
C6_EnsureCreated ==
  (op.fn = "createOidcDir" /\ ret.out = "returned") =>
    /\ ret.code = OIDC_SUCCESS =>
         LET d == getOidcDir(locKind)
         IN /\ d.out = "returned"
            /\ d.dir = StrPtr(LocPath(ret.target))
            /\ MarkerIn(contents[ret.target])
            /\ ~InSeq(ISSUER_CONFIG_FILENAME,
                      getAccountConfigFileList(locKind, contents, "fails").list)
            /\ ~InSeq(oidc_strcat(LocPath(ret.target), ISSUER_CONFIG_FILENAME),
                      getClientConfigFileList(locKind, contents, "fails", "crash").list)
    /\ (~ret.made \/ ~ret.opened) => ret.code # OIDC_SUCCESS

IsAccountEntry(e) == e.type = "DT_REG" /\ isAccountConfigFile(e.name) = 1
IsClientEntry(e) == e.type = "DT_REG" /\ isClientConfigFile(e.name) = 1
Names(ents) == [k \in 1..Len(ents) |-> ents[k].name]
Qualified(dir, names) == [k \in 1..Len(names) |-> dir \o names[k]]

CannotOpen ==
  \/ /\ op.fn = "getFileListForDir"
     /\ (op.dirname.null \/ op.before.locKind[LocOf(op.dirname.s)] # "dir")
  \/ /\ op.fn \in {"getAccountConfigFileList", "getClientConfigFileList"}
     /\ getOidcDir(op.before.locKind) = [out |-> "returned", dir |-> NullStr]

\* C8: when the directory to list cannot be opened (also when no config
\* directory is resolved) getFileListForDirIf, getAccountConfigFileList and
\* getClientConfigFileList return the error outcome (no list, reason set), no
\* partial listing, and none goes on to use the missing listing.
C8_OpenFailureIsError ==
  (op.fn \in {"getFileListForDir", "getAccountConfigFileList", "getClientConfigFileList"}
   /\ CannotOpen) =>
    /\ ret.out = "returned"
    /\ ret.null /\ ret.list = <<>> /\ ret.errset
    /\ ~ret.usedMissing

\* --------------------------------------------------- classifier specification
InitClassify ==
  /\ CallDefault /\ DirDefault /\ PlainDefault /\ CryptDefault
  /\ filename \in Filenames

IsClientConfigFile ==
  /\ op' = [fn |-> "isClientConfigFile"]
  /\ ret' = [out |-> "returned", val |-> isClientConfigFile(filename)]
  /\ UNCHANGED <<alive, ClassVars, DirVars, PlainVars, CryptVars>>

IsAccountConfigFile ==
  /\ op' = [fn |-> "isAccountConfigFile"]
  /\ ret' = [out |-> "returned", val |-> isAccountConfigFile(filename)]
  /\ UNCHANGED <<alive, ClassVars, DirVars, PlainVars, CryptVars>>

NextClassify == IsClientConfigFile \/ IsAccountConfigFile

SpecClassify == InitClassify /\ [][NextClassify]_vars

\* an occurrence of ".clientconfig" at i followed only by decimal digits up to
\* the end of the name
DigitsOnlyAfter(name, i) ==
  /\ OccursAt(name, Str_clientconfig, i)
  /\ \A j \in (i + Len(Str_clientconfig))..Len(name) : name[j] \in Digits

\* C9: isClientConfigFile is true exactly for the names that end with
\* ".clientconfig" or contain an occurrence of ".clientconfig" followed only
\* by decimal digits up to the end, also when the name holds more than one
\* occurrence of ".clientconfig".
C9_ClientConfigIff ==
  op.fn = "isClientConfigFile" =>
    (ret.val = 1 <=>
       (\/ strEnds(filename, Str_clientconfig)
        \/ \E i \in 1..Len(filename) : DigitsOnlyAfter(filename, i)))

\* ------------------------------------------ encrypted file access specification
\* what the collaborators give during one call: the prompt's answer and the
\* writer's outcome for a write; the prompt's successive answers for a read
\* (a cancelled prompt ends the dialogue)
WriteEnvs == {[pwd |-> NULL, wr |-> "fail"]} \cup [pwd : {"pw1"}, wr : {"ok", "fail"}]
ReadEnvs ==
  [attempts : {a \in UNION {[1..n -> {NULL} \cup Passwords] : n \in 1..MaxTries} :
                 \A k \in 1..(Len(a) - 1) : a[k] # NULL}]
OptText == {NULL} \cup Texts
OptPath == {NULL, FILEPATH}
OptName == {NULL, OIDCNAME}
OptHint == {NULL, "hint"}
OptSuggested == {NULL, "sugg"}
OptCmd == {NULL, "cmd"}

InitCrypt == CallDefault /\ ClassDefault /\ DirDefault /\ PlainDefault /\ CryptDefault

Returns(r) ==
  /\ ret' = [out |-> r.out, code |-> r.code, result |-> r.result, password |-> r.password]
  /\ events' = r.events
  /\ pws' = r.pws
  /\ store' = r.store
  /\ UNCHANGED <<alive, ClassVars, DirVars, PlainVars>>

WriteCall(fn, text, filepath, oidc_filename, hint, suggestedPassword, pw_cmd, env) ==
  op' = [fn |-> fn, text |-> text, filepath |-> filepath, oidc_filename |-> oidc_filename,
         hint |-> hint, suggestedPassword |-> suggestedPassword, pw_cmd |-> pw_cmd,
         env |-> env, before |-> store]

ReadCall(fn, arg, pw_cmd, env) ==
  op' = [fn |-> fn, arg |-> arg, pw_cmd |-> pw_cmd, env |-> env, before |-> store]

PromptAndCryptAndWriteToAnyFile ==
  \E text \in OptText, filepath \in OptPath, oidc_filename \in OptName, hint \in OptHint,
     suggestedPassword \in OptSuggested, pw_cmd \in OptCmd, env \in WriteEnvs :
    /\ WriteCall("_promptAndCryptAndWriteToAnyFile", text, filepath, oidc_filename, hint,
                 suggestedPassword, pw_cmd, env)
    /\ Returns(_promptAndCryptAndWriteToAnyFile(text, filepath, oidc_filename, hint,
                                                suggestedPassword, pw_cmd, env, store))

PromptEncryptAndWriteToFile ==
  \E text \in OptText, filepath \in OptPath, hint \in OptHint,
     suggestedPassword \in OptSuggested, pw_cmd \in OptCmd, env \in WriteEnvs :
    /\ WriteCall("promptEncryptAndWriteToFile", text, filepath, NULL, hint,
                 suggestedPassword, pw_cmd, env)
    /\ Returns(promptEncryptAndWriteToFile(text, filepath, hint, suggestedPassword,
                                           pw_cmd, env, store))

PromptEncryptAndWriteToOidcFile ==
  \E text \in OptText, fname \in OptName, hint \in OptHint,
     suggestedPassword \in OptSuggested, pw_cmd \in OptCmd, env \in WriteEnvs :
    /\ WriteCall("promptEncryptAndWriteToOidcFile", text, NULL, fname, hint,
                 suggestedPassword, pw_cmd, env)
    /\ Returns(promptEncryptAndWriteToOidcFile(text, fname, hint, suggestedPassword,
                                               pw_cmd, env, store))

GetDecryptedFileAndPasswordFor ==
  \E filepath \in OptPath, pw_cmd \in OptCmd, env \in ReadEnvs :
    /\ ReadCall("getDecryptedFileAndPasswordFor", filepath, pw_cmd, env)
    /\ Returns(getDecryptedFileAndPasswordFor(filepath, pw_cmd, env, store))

GetDecryptedOidcFileAndPasswordFor ==
  \E fname \in OptName, pw_cmd \in OptCmd, env \in ReadEnvs :
    /\ ReadCall("getDecryptedOidcFileAndPasswordFor", fname, pw_cmd, env)
    /\ Returns(getDecryptedOidcFileAndPasswordFor(fname, pw_cmd, env, store))

GetDecryptedFileFor ==
  \E filepath \in OptPath, pw_cmd \in OptCmd, env \in ReadEnvs :
    /\ ReadCall("getDecryptedFileFor", filepath, pw_cmd, env)
    /\ Returns(getDecryptedFileFor(filepath, pw_cmd, env, store))

GetDecryptedOidcFileFor ==
  \E fname \in OptName, pw_cmd \in OptCmd, env \in ReadEnvs :
    /\ ReadCall("getDecryptedOidcFileFor", fname, pw_cmd, env)
    /\ Returns(getDecryptedOidcFileFor(fname, pw_cmd, env, store))

NextCrypt ==
  \/ PromptAndCryptAndWriteToAnyFile
  \/ PromptEncryptAndWriteToFile
  \/ PromptEncryptAndWriteToOidcFile
  \/ GetDecryptedFileAndPasswordFor
  \/ GetDecryptedOidcFileAndPasswordFor
  \/ GetDecryptedFileFor
  \/ GetDecryptedOidcFileFor

SpecCrypt == InitCrypt /\ [][NextCrypt]_vars

WriteOps == {"_promptAndCryptAndWriteToAnyFile", "promptEncryptAndWriteToFile",
             "promptEncryptAndWriteToOidcFile"}
PlainReadOps == {"getDecryptedFileFor", "getDecryptedOidcFileFor"}
PairedReadOps == {"getDecryptedFileAndPasswordFor", "getDecryptedOidcFileAndPasswordFor"}

IsWrite(e) == e.e = "write"
IsPrompt(e) == e.e = "getEncryptionPasswordFor"
WriteEvents == SelectSeq(events, IsWrite)
Prompted == SelectSeq(events, IsPrompt) # <<>>

ArgsGiven ==
  /\ op.text # NULL
  /\ op.hint # NULL
  /\ (op.filepath # NULL \/ op.oidc_filename # NULL)

\* C1: in every write operation, when getEncryptionPasswordFor gives no
\* password the call returns an error, the encrypt-and-write step is not
\* invoked and the target file is as it was before the call.
C1_PromptFailureAborts ==
  (op.fn \in WriteOps /\ Prompted /\ op.env.pwd = NULL) =>
    /\ ret.out = "returned"
    /\ ret.code # OIDC_SUCCESS
    /\ WriteEvents = <<>>
    /\ store = op.before

\* a cancelled prompt in a write to a config-directory file that already exists
C1_Witness ==
  /\ op.fn = "promptEncryptAndWriteToOidcFile"
  /\ Prompted
  /\ op.env.pwd = NULL
  /\ ret.code = OIDC_EUSRPWCNCL
  /\ store[<<"oidc", OIDCNAME>>].present

\* C2: a write operation given a null content, a null hint or neither a path
\* nor a logical filename fails with the argument error without prompting,
\* encrypting or touching a file; a decrypt entry point given a null
\* filename/path returns a null result without reading or prompting.
C2_ArgumentErrors ==
  /\ (op.fn \in WriteOps /\ ~ArgsGiven) =>
       /\ ret.out = "returned"
       /\ ret.code = OIDC_EARGNULLFUNC
       /\ events = <<>> /\ pws = <<>>
       /\ store = op.before
  /\ (op.fn \in PlainReadOps \cup PairedReadOps /\ op.arg = NULL) =>
       /\ ret.out = "returned"
       /\ ret.result = NULL /\ ret.password = 0
       /\ events = <<>> /\ pws = <<>>
       /\ store = op.before

\* a write with everything but the hint, where a prompt would have answered
C2_Witness ==
  /\ op.fn = "_promptAndCryptAndWriteToAnyFile"
  /\ op.text # NULL /\ op.filepath # NULL /\ op.hint = NULL
  /\ op.env.pwd # NULL /\ op.env.wr = "ok"
  /\ ret.code = OIDC_EARGNULLFUNC

\* C3: a write operation and a plaintext-only read return with every password
\* obtained during the call erased, on every exit path; only a paired
\* getDecrypted*AndPasswordFor result hands back a live password.
C3_PasswordsErased ==
  /\ op.fn \in WriteOps \cup PlainReadOps =>
       /\ ret.password = 0
       /\ \A i \in 1..Len(pws) : pws[i].state = "erased"
  /\ op.fn \in PairedReadOps =>
       /\ \A i \in 1..Len(pws) : i # ret.password => pws[i].state = "erased"
       /\ ret.password # 0 => (ret.result # NULL /\ pws[ret.password].state = "live")

\* a plaintext-only read that succeeded at the second password asked
C3_Witness ==
  /\ op.fn = "getDecryptedFileFor"
  /\ ret.result # NULL
  /\ Len(pws) = 2

\* C10: a write call that reaches the write step calls one writer once, and
\* the writer and its target agree: the config-directory writer with the
\* logical filename when one is given, the arbitrary-path writer with the path
\* when only a path is given.
C10_AddressingMode ==
  op.fn \in WriteOps =>
    /\ Len(WriteEvents) <= 1
    /\ \A k \in 1..Len(WriteEvents) :
         IF op.oidc_filename # NULL
         THEN /\ WriteEvents[k].fn = "encryptAndWriteToOidcFile"
              /\ WriteEvents[k].arg = op.oidc_filename
         ELSE /\ WriteEvents[k].fn = "encryptAndWriteToFile"
              /\ WriteEvents[k].arg = op.filepath
    /\ \A key \in StoreKeys :
         store[key] # op.before[key] =>
           key = (IF op.oidc_filename # NULL THEN <<"oidc", op.oidc_filename>>
                  ELSE <<"path", op.filepath>>)

\* both a path and a logical filename given, and the write done
C10_Witness ==
  /\ op.fn = "_promptAndCryptAndWriteToAnyFile"
  /\ op.filepath # NULL /\ op.oidc_filename # NULL
  /\ Len(WriteEvents) = 1
  /\ ret.code = OIDC_SUCCESS
  /\ store[<<"oidc", OIDCNAME>>].present
  /\ ~store[<<"path", FILEPATH>>].present

====
